---- MODULE Spec2Model ----
(***************************************************************************)
(* A model of brlaw_mcp_server: the Cloudflare Turnstile solver            *)
(* (cloudflare.py), the STJ research protocol with its retry loop          *)
(* (domain/stj.py) and the TJES research protocol (domain/tjes.py).        *)
(*                                                                         *)
(* Text is a sequence of one-character strings.  Event-loop time is        *)
(* counted in whole seconds from the entry of solve_cloudflare_challenge.  *)
(***************************************************************************)
EXTENDS Integers, Sequences, FiniteSets, TLC

VARIABLES
    \* ---- solve_cloudflare_challenge (cloudflare.py) ----
    spc,            \* position in solve_cloudflare_challenge
    sAttempt,       \* the loop variable `attempt`
    now,            \* asyncio.get_event_loop().time()
    deadline,       \* the local `deadline`
    bounding_box,   \* the local `bounding_box` (NoBox or a box)
    sResult,        \* "none", "true", "false" (returned) or "raised"
    clicks,         \* number of page.mouse.click calls issued
    lastClick,      \* coordinates of the last click, None before any
    observed,       \* history: a resolution check has observed a signal true
    seen,           \* history: what the current loop iteration has found so far
                    \* (empty between iterations)
    \* ---- StjLegalPrecedent.research (domain/stj.py) ----
    pc,             \* position in research / _attempt_research
    attempt,        \* the loop variable `attempt` of research
    last_error,     \* the local `last_error`
    desired_page,   \* argument
    current_page,   \* the local `current_page`
    raw_summary_locators,  \* the local list of locators
    extraction,     \* what the last _get_raw_summary_locators call saw and did
    built,          \* records built so far by the final comprehension
    bIdx,           \* index of the next locator of the final comprehension
    outcome,        \* what the caller of research observes
    log,            \* history: attempts, failures and resets in order
    steps,          \* history: what the current attempt has done, in order
    \* ---- TjesLegalPrecedent.research (domain/tjes.py) ----
    tpc,            \* position in research
    query,          \* argument summary_search_prompt
    tpage,          \* argument desired_page
    urls,           \* <<primary_url, fallback_url>>
    requests,       \* history: URLs requested by the in-browser fetch
    responses,      \* history: the statuses received and the body parsed
    result,         \* value returned by browser.evaluate
    precedents,     \* the local list `precedents`
    docIdx,         \* index of the next document of the for loop
    toutcome,       \* what the caller of research observes
    \* ---- one pure function applied to an argument ----
    fpc,            \* which function is applied next, or what has been applied
    fin,            \* the argument
    fout,           \* the value returned
    fagain,         \* the value returned when applied to its own output
    \* ---- two concurrent calls of StjLegalPrecedent.research ----
    calls,          \* per call: position, locals and history of research
    sessions        \* per browser session: the page it shows and who reset it

solverVars == <<spc, sAttempt, now, deadline, bounding_box, sResult, clicks,
                lastClick, observed, seen>>
stjVars == <<pc, attempt, last_error, desired_page, current_page,
             raw_summary_locators, extraction, built, bIdx, outcome, log,
             steps>>
tjesVars == <<tpc, query, tpage, urls, requests, responses, result, precedents,
              docIdx, toutcome>>
pureVars == <<fpc, fin, fout, fagain>>
concVars == <<calls, sessions>>
vars == <<solverVars, stjVars, tjesVars, pureVars, concVars>>

\* Python's None where a text or a tuple is expected
None == <<"None">>
\* the exception of a driver call where its value is expected
Raised == <<"raised">>
\* bounding_box() returning None
NoBox == [none |-> TRUE]

\* ------------------------------------------------------------------ bounds
\* longest time, in seconds, one awaited driver call may take
MaxCallDelay == 1
\* most result fragments on one results page
MaxFragments == 2
\* largest desired page
MaxPage == 2
\* most documents in one API response
MaxDocs == 2

\* ------------------------------------------------------------------ text
IsSpace(c) == c \in {" ", "\n", "\t"}

RECURSIVE LStrip(_)
LStrip(s) == IF s /= <<>> /\ IsSpace(Head(s)) THEN LStrip(Tail(s)) ELSE s

RECURSIVE RStrip(_)
RStrip(s) ==
    IF s /= <<>> /\ IsSpace(s[Len(s)]) THEN RStrip(SubSeq(s, 1, Len(s) - 1)) ELSE s

\* str.strip()
Strip(s) == RStrip(LStrip(s))

Upper == <<"A","B","C","D","E","F","G","H","I","J","K","L","M",
           "N","O","P","Q","R","S","T","U","V","W","X","Y","Z">>
Lowers == <<"a","b","c","d","e","f","g","h","i","j","k","l","m",
            "n","o","p","q","r","s","t","u","v","w","x","y","z">>

LowerChar(c) ==
    IF \E i \in 1..Len(Upper) : Upper[i] = c
    THEN Lowers[CHOOSE i \in 1..Len(Upper) : Upper[i] = c]
    ELSE c

\* str.lower()
Lower(s) == [i \in 1..Len(s) |-> LowerChar(s[i])]

\* `sub in s` for texts
Contains(s, sub) ==
    \E i \in 0..(Len(s) - Len(sub)) : SubSeq(s, i + 1, i + Len(sub)) = sub

RECURSIVE Repeat(_, _)
Repeat(c, n) == IF n = 0 THEN <<>> ELSE <<c>> \o Repeat(c, n - 1)

RECURSIVE Join(_, _)
\* sep.join(parts)
Join(sep, parts) ==
    IF parts = <<>> THEN <<>>
    ELSE IF Len(parts) = 1 THEN parts[1]
    ELSE parts[1] \o sep \o Join(sep, Tail(parts))

\* ------------------------------------------------------------ cloudflare.py
CHALLENGE_TITLE_KEYWORDS ==
    { <<"m","o","m","e","n","t">>,
      <<"m","o","m","e","n","t","o">>,
      <<"j","u","s","t"," ","a">> }
TURNSTILE_IFRAME_URL_FRAGMENT == "challenges.cloudflare.com"
MAX_SOLVE_ATTEMPTS == 20
ATTEMPT_INTERVAL_SECONDS == 2
CHECKBOX_X_OFFSET == 30
POST_CLICK_WAIT_SECONDS == 3
INITIAL_WAIT_SECONDS == 3
timeout_seconds == 90
TOKEN_SETTLE_SECONDS == 2
\* timeout=1000 (ms) of page.input_value
TOKEN_READ_TIMEOUT_SECONDS == 1

\* page titles the driver may report
Titles ==
    { <<"J","u","s","t"," ","a"," ","m","o","m","e","n","t",".",".",".">>,
      <<"U","m"," ","M","O","M","E","N","T","O">>,
      <<"S","T","J">>,
      <<>> }

\* a frame URL is its list of components; `fragment in url` holds when the
\* fragment is one of them
FrameUrls ==
    { <<"about:blank">>,
      <<"https://", "scon.stj.jus.br", "/SCON/">>,
      <<"https://", "challenges.cloudflare.com", "/cdn-cgi/challenge-platform/">>,
      <<>> }
UrlContains(url, fragment) == \E i \in 1..Len(url) : url[i] = fragment

\* page.frames as the driver may report it
FrameLists ==
    { <<u>> : u \in FrameUrls } \cup
    { <<u, v>> : u \in {<<"https://", "scon.stj.jus.br", "/SCON/">>}, v \in FrameUrls }

\* the bounding box of the iframe element (height even, so height / 2 is whole)
Boxes == { [x |-> 100, y |-> 200, width |-> 300, height |-> 64] }

\* values of the hidden input as page.input_value may return them
TokenValues == { <<>>, <<"t","o","k">> }

\* a faulty detector: the title is not lower-cased before the test
is_cloudflare_challenge_CaseSensitive(title) ==
    \E kw \in CHALLENGE_TITLE_KEYWORDS : Contains(title, kw)

\* is_cloudflare_challenge applied to the title the driver returned
is_cloudflare_challenge(title) ==
    \E kw \in CHALLENGE_TITLE_KEYWORDS : Contains(Lower(title), kw)

\* a faulty token test: the exception of the read is not caught apart
has_turnstile_response_Unguarded(read) == read /= <<>>

\* _has_turnstile_response: read is a value of the field, or Raised when
\* page.input_value raised (field absent, timeout, any other failure)
has_turnstile_response(read) ==
    IF read = Raised THEN FALSE ELSE read /= <<>>

\* _find_turnstile_frame: the first frame whose URL contains the fragment
find_turnstile_frame(frames) ==
    IF \E i \in 1..Len(frames) : UrlContains(frames[i], TURNSTILE_IFRAME_URL_FRAGMENT)
    THEN frames[CHOOSE i \in 1..Len(frames) :
                    /\ UrlContains(frames[i], TURNSTILE_IFRAME_URL_FRAGMENT)
                    /\ \A j \in 1..(i - 1) :
                           ~UrlContains(frames[j], TURNSTILE_IFRAME_URL_FRAGMENT)]
    ELSE None

SolverActive ==
    {"loop", "check_title", "check_token", "find_frame", "frame_element",
     "bounding_box", "click", "recheck_title", "recheck_token", "settle"}

SolverReturn(value) ==
    /\ spc' = "returned"
    /\ sResult' = value

SolverRaise ==
    /\ spc' = "raised"
    /\ sResult' = "raised"

\* entry: sleep(_INITIAL_WAIT_SECONDS), then compute the deadline
SolverEnter ==
    /\ spc = "start"
    /\ now' = now + INITIAL_WAIT_SECONDS
    /\ deadline' = now' + timeout_seconds
    /\ sAttempt' = 1
    /\ spc' = "loop"
    /\ UNCHANGED <<bounding_box, sResult, clicks, lastClick, observed, seen>>

\* what a loop iteration that begins now has found: whether it begins before
\* the deadline
Begun == IF now < deadline THEN {"in_time"} ELSE {"late"}

\* a faulty loop head: the deadline test is left out
SolverLoopHead_NoDeadline ==
    /\ spc = "loop"
    /\ IF sAttempt > MAX_SOLVE_ATTEMPTS
       THEN SolverReturn("false") /\ UNCHANGED seen
       ELSE spc' = "check_title" /\ seen' = Begun /\ UNCHANGED sResult
    /\ UNCHANGED <<sAttempt, now, deadline, bounding_box, clicks, lastClick, observed>>

\* the head of `for attempt in range(1, _MAX_SOLVE_ATTEMPTS + 1)` with the
\* deadline test, and the return after the loop
SolverLoopHead ==
    /\ spc = "loop"
    /\ IF sAttempt > MAX_SOLVE_ATTEMPTS
       THEN SolverReturn("false") /\ UNCHANGED seen
       ELSE IF now >= deadline
            THEN SolverReturn("false") /\ UNCHANGED seen
            ELSE spc' = "check_title" /\ seen' = Begun /\ UNCHANGED sResult
    /\ UNCHANGED <<sAttempt, now, deadline, bounding_box, clicks, lastClick, observed>>

\* a faulty title check: True is returned whatever the title
SolverCheckTitle_AlwaysTrue(at, next) ==
    /\ spc = at
    /\ \E d \in 0..MaxCallDelay :
        /\ now' = now + d
        /\ \/ \E title \in Titles :
                /\ SolverReturn("true")
                /\ observed' = (observed \/ ~is_cloudflare_challenge(title))
                /\ UNCHANGED seen
           \/ SolverRaise /\ UNCHANGED <<observed, seen>>
    /\ UNCHANGED <<sAttempt, deadline, bounding_box, clicks, lastClick>>

\* `if not await is_cloudflare_challenge(page): return True`, before the click
\* (at = "check_title") and after it (at = "recheck_title")
SolverCheckTitle(at, next) ==
    /\ spc = at
    /\ \E d \in 0..MaxCallDelay :
        /\ now' = now + d
        /\ \/ \E title \in Titles :
                IF ~is_cloudflare_challenge(title)
                THEN SolverReturn("true") /\ observed' = TRUE /\ UNCHANGED seen
                ELSE /\ spc' = next
                     /\ seen' = seen \cup {"challenge"}
                     /\ UNCHANGED <<sResult, observed>>
           \/ \* page.title() raises
              SolverRaise /\ UNCHANGED <<observed, seen>>
    /\ UNCHANGED <<sAttempt, deadline, bounding_box, clicks, lastClick>>

CheckTitle == SolverCheckTitle("check_title", "check_token")

RecheckTitle == SolverCheckTitle("recheck_title", "recheck_token")

\* a faulty token check: a token that is present does not end the iteration
CheckToken_GoesOn ==
    /\ spc = "check_token"
    /\ \E d \in 0..TOKEN_READ_TIMEOUT_SECONDS, read \in TokenValues \cup {Raised} :
        /\ now' = now + d
        /\ spc' = "find_frame"
        /\ seen' = IF has_turnstile_response(read) THEN seen ELSE seen \cup {"no_token"}
        /\ UNCHANGED observed
    /\ UNCHANGED <<sAttempt, deadline, bounding_box, sResult, clicks, lastClick>>

\* `if await _has_turnstile_response(page): sleep(2.0); return True`
CheckToken ==
    /\ spc = "check_token"
    /\ \E d \in 0..TOKEN_READ_TIMEOUT_SECONDS, read \in TokenValues \cup {Raised} :
        /\ now' = now + d
        /\ IF has_turnstile_response(read)
           THEN spc' = "settle" /\ observed' = TRUE /\ UNCHANGED seen
           ELSE /\ spc' = "find_frame"
                /\ seen' = seen \cup {"no_token"}
                /\ UNCHANGED observed
    /\ UNCHANGED <<sAttempt, deadline, bounding_box, sResult, clicks, lastClick>>

\* a faulty re-check: a token seen after the click does not end the loop
RecheckToken_NoReturn ==
    /\ spc = "recheck_token"
    /\ \E d \in 0..TOKEN_READ_TIMEOUT_SECONDS, read \in TokenValues \cup {Raised} :
        /\ now' = now + d
        /\ observed' = (observed \/ has_turnstile_response(read))
        /\ spc' = "loop"
        /\ sAttempt' = sAttempt + 1
        /\ seen' = {}
    /\ UNCHANGED <<deadline, bounding_box, sResult, clicks, lastClick>>

\* the same test after the click; without a token the iteration ends
RecheckToken ==
    /\ spc = "recheck_token"
    /\ \E d \in 0..TOKEN_READ_TIMEOUT_SECONDS, read \in TokenValues \cup {Raised} :
        /\ now' = now + d
        /\ IF has_turnstile_response(read)
           THEN spc' = "settle" /\ observed' = TRUE /\ UNCHANGED <<sAttempt, seen>>
           ELSE /\ spc' = "loop"
                /\ sAttempt' = sAttempt + 1
                /\ seen' = {}
                /\ UNCHANGED observed
    /\ UNCHANGED <<deadline, bounding_box, sResult, clicks, lastClick>>

\* sleep(2.0) for the redirect, then return True
SolverSettle ==
    /\ spc = "settle"
    /\ now' = now + TOKEN_SETTLE_SECONDS
    /\ SolverReturn("true")
    /\ UNCHANGED <<sAttempt, deadline, bounding_box, clicks, lastClick, observed,
                   seen>>

\* `_find_turnstile_frame(page)`; without a frame sleep and continue
FindFrame ==
    /\ spc = "find_frame"
    /\ \E frames \in FrameLists :
        IF find_turnstile_frame(frames) = None
        THEN /\ now' = now + ATTEMPT_INTERVAL_SECONDS
             /\ sAttempt' = sAttempt + 1
             /\ spc' = "loop"
             /\ seen' = {}
        ELSE /\ spc' = "frame_element"
             /\ seen' = seen \cup {"frame"}
             /\ UNCHANGED <<now, sAttempt>>
    /\ UNCHANGED <<deadline, bounding_box, sResult, clicks, lastClick, observed>>

\* `await turnstile_frame.frame_element()`
FrameElement ==
    /\ spc = "frame_element"
    /\ \E d \in 0..MaxCallDelay :
        /\ now' = now + d
        /\ \/ spc' = "bounding_box" /\ UNCHANGED sResult
           \/ SolverRaise
    /\ UNCHANGED <<sAttempt, deadline, bounding_box, clicks, lastClick, observed,
                   seen>>

\* `await frame_element.bounding_box()`; without a box sleep and continue
BoundingBox ==
    /\ spc = "bounding_box"
    /\ \E d \in 0..MaxCallDelay :
        \/ \E box \in Boxes \cup {NoBox} :
            /\ bounding_box' = box
            /\ IF box = NoBox
               THEN /\ now' = now + d + ATTEMPT_INTERVAL_SECONDS
                    /\ sAttempt' = sAttempt + 1
                    /\ spc' = "loop"
                    /\ seen' = {}
               ELSE /\ now' = now + d
                    /\ spc' = "click"
                    /\ seen' = seen \cup {"box"}
                    /\ UNCHANGED sAttempt
            /\ UNCHANGED sResult
        \/ /\ now' = now + d
           /\ SolverRaise
           /\ UNCHANGED <<sAttempt, bounding_box, seen>>
    /\ UNCHANGED <<deadline, clicks, lastClick, observed>>

\* the click point: offset from the left edge, vertically centred
click_x == bounding_box.x + CHECKBOX_X_OFFSET
click_y == bounding_box.y + bounding_box.height \div 2

\* `await page.mouse.click(click_x, click_y)` and the sleep after it
Click ==
    /\ spc = "click"
    /\ clicks' = clicks + 1
    /\ lastClick' = <<click_x, click_y>>
    /\ seen' = seen \cup {"clicked"}
    /\ \E d \in 0..MaxCallDelay :
        \/ /\ now' = now + d + POST_CLICK_WAIT_SECONDS
           /\ spc' = "recheck_title"
           /\ UNCHANGED sResult
        \/ /\ now' = now + d
           /\ SolverRaise
    /\ UNCHANGED <<sAttempt, deadline, bounding_box, observed>>

SolverInit(at) ==
    /\ spc = at
    /\ sAttempt = 0
    /\ now = 0
    /\ deadline = 0
    /\ bounding_box = NoBox
    /\ sResult = "none"
    /\ clicks = 0
    /\ lastClick = None
    /\ observed = FALSE
    /\ seen = {}

\* ------------------------------------------------------------ domain/stj.py
MAX_RETRIES == 2

NO_DOCUMENT_FOUND ==
    <<"N","e","n","h","u","m"," ","d","o","c","u","m","e","n","t","o"," ",
      "e","n","c","o","n","t","r","a","d","o","!">>

\* text_content() of div.erroMensagem: texts, or None
ErrorMessages ==
    { NO_DOCUMENT_FOUND,
      <<" ">> \o NO_DOCUMENT_FOUND \o <<" ">>,
      <<"E","r","r","o"," ","i","n","t","e","r","n","o">>,
      <<>>,
      None }

\* text_content() of a result textarea: texts, or None
FragmentTexts == { <<"a">>, <<" ", "a", " ">>, <<" ">>, <<>>, None }

\* what solve_cloudflare_challenge can hand to its caller: True, False or an
\* exception of the driver (SpecSolver reaches each of the three)
SolverOutcomes == {"true", "false", "raised"}

NoError == [kind |-> "None", attempt |-> 0]
Unread == <<"unread">>
NoExtraction == [found |-> -1, message |-> Unread, result |-> "none"]

\* the record built by cls(summary=text); src is history: the locator (STJ) or
\* the document index (TJES) the record was built from
LegalPrecedent(summary, src) == [summary |-> summary, src |-> src]

\* `except (TimeoutError, RuntimeError)`
Retryable(kind) == kind \in {"TimeoutError", "RuntimeError"}

\* the current attempt has executed the statements named, in this order
Did(names) == steps' = steps \o names

\* the next statement of the attempt is reached
Continue(next) ==
    /\ pc' = next
    /\ UNCHANGED <<attempt, last_error, outcome, log>>

\* a faulty except clause: last_error keeps the first error it was given
Propagate_KeepsFirst(kind) ==
    /\ log' = Append(log, [ev |-> "fail", n |-> attempt, kind |-> kind])
    /\ IF Retryable(kind)
       THEN /\ last_error' = IF last_error = NoError
                             THEN [kind |-> kind, attempt |-> attempt]
                             ELSE last_error
            /\ IF attempt < MAX_RETRIES
               THEN pc' = "reset" /\ UNCHANGED attempt
               ELSE pc' = "research" /\ attempt' = attempt + 1
            /\ UNCHANGED outcome
       ELSE /\ outcome' = [kind |-> "raised", error |-> kind,
                           aggregated |-> FALSE, cause |-> NoError]
            /\ pc' = "done"
            /\ UNCHANGED <<attempt, last_error>>

\* an exception of class kind leaves _attempt_research: the except clause of
\* research takes it when it is a TimeoutError or a RuntimeError, and it
\* reaches the caller of research otherwise
Propagate(kind) ==
    /\ log' = Append(log, [ev |-> "fail", n |-> attempt, kind |-> kind])
    /\ IF Retryable(kind)
       THEN /\ last_error' = [kind |-> kind, attempt |-> attempt]
            /\ IF attempt < MAX_RETRIES
               THEN pc' = "reset" /\ UNCHANGED attempt
               ELSE pc' = "research" /\ attempt' = attempt + 1
            /\ UNCHANGED outcome
       ELSE /\ outcome' = [kind |-> "raised", error |-> kind,
                           aggregated |-> FALSE, cause |-> NoError]
            /\ pc' = "done"
            /\ UNCHANGED <<attempt, last_error>>

\* `for attempt in range(1, _MAX_RETRIES + 1)` and the raise after the loop
ResearchLoop ==
    /\ pc = "research"
    /\ IF attempt <= MAX_RETRIES
       THEN /\ pc' = "goto"
            /\ log' = Append(log, [ev |-> "attempt", n |-> attempt])
            /\ steps' = <<>>
            /\ UNCHANGED outcome
       ELSE /\ outcome' = [kind |-> "raised", error |-> "RuntimeError",
                           aggregated |-> TRUE, cause |-> last_error]
            /\ pc' = "done"
            /\ UNCHANGED <<log, steps>>
    /\ UNCHANGED <<attempt, last_error, desired_page, current_page,
                   raw_summary_locators, extraction, built, bIdx>>

\* a faulty reset: an error of the navigation to about:blank is not suppressed
ResetSession_Unsuppressed ==
    /\ pc = "reset"
    /\ \E ok \in BOOLEAN :
        /\ log' = Append(log, [ev |-> "reset", n |-> attempt, ok |-> ok])
        /\ IF ok
           THEN attempt' = attempt + 1 /\ pc' = "research" /\ UNCHANGED outcome
           ELSE /\ outcome' = [kind |-> "raised", error |-> "Error",
                               aggregated |-> FALSE, cause |-> NoError]
                /\ pc' = "done"
                /\ UNCHANGED attempt
    /\ UNCHANGED <<last_error, desired_page, current_page, raw_summary_locators,
                   extraction, built, bIdx, steps>>

\* `with contextlib.suppress(Exception): await browser.goto("about:blank")`
ResetSession ==
    /\ pc = "reset"
    /\ \E ok \in BOOLEAN :
        log' = Append(log, [ev |-> "reset", n |-> attempt, ok |-> ok])
    /\ attempt' = attempt + 1
    /\ pc' = "research"
    /\ UNCHANGED <<last_error, desired_page, current_page, raw_summary_locators,
                   extraction, built, bIdx, outcome, steps>>

\* the awaited driver calls of _attempt_research that only succeed or fail,
\* each with the statement that follows it
NextStep ==
    [ goto |-> "detect",            \* browser.goto(...)
      networkidle |-> "ready",      \* wait_for_load_state("networkidle")
      ready |-> "adv_wait",         \* wait_for_function(readyState complete)
      adv_wait |-> "adv_click",     \* adv_search_btn.wait_for
      adv_click |-> "input_wait",   \* adv_search_btn.click
      input_wait |-> "fill",        \* summary_input_locator.wait_for
      fill |-> "press",             \* summary_input_locator.fill
      press |-> "results_wait",     \* summary_input_locator.press("Enter")
      results_wait |-> "extract",   \* #corpopaginajurisprudencia wait_for
      wait_load |-> "re_extract" ]  \* wait_for_event("load")

DriverStep ==
    /\ pc \in DOMAIN NextStep
    /\ Did(<<pc>>)
    /\ \/ Continue(NextStep[pc])
       \/ \E kind \in {"TimeoutError", "Error"} : Propagate(kind)
    /\ UNCHANGED <<desired_page, current_page, raw_summary_locators, extraction,
                   built, bIdx>>

\* `if await is_cloudflare_challenge(browser)`
Detect ==
    /\ pc = "detect"
    /\ \/ \E title \in Titles :
            IF is_cloudflare_challenge(title)
            THEN Did(<<"detect", "challenge">>) /\ Continue("solve")
            ELSE Did(<<"detect", "clear">>) /\ Continue("networkidle")
       \/ Did(<<"detect">>) /\ Propagate("Error")
    /\ UNCHANGED <<desired_page, current_page, raw_summary_locators, extraction,
                   built, bIdx>>

\* a faulty call: the attempt goes on whatever the solver returned
Solve_IgnoresResult ==
    /\ pc = "solve"
    /\ \E solved \in SolverOutcomes :
        /\ Did(<<"solve", solved>>)
        /\ CASE solved = "true" -> Continue("networkidle")
             [] solved = "false" -> Continue("networkidle")
             [] solved = "raised" -> Propagate("Error")
    /\ UNCHANGED <<desired_page, current_page, raw_summary_locators, extraction,
                   built, bIdx>>

\* `solved = await solve_cloudflare_challenge(browser)`, raising when not solved
Solve ==
    /\ pc = "solve"
    /\ \E solved \in SolverOutcomes :
        /\ Did(<<"solve", solved>>)
        /\ CASE solved = "true" -> Continue("networkidle")
             [] solved = "false" -> Propagate("RuntimeError")
             [] solved = "raised" -> Propagate("Error")
    /\ UNCHANGED <<desired_page, current_page, raw_summary_locators, extraction,
                   built, bIdx>>

\* the locators of n fragments found on page p
Locators(n, p) == [i \in 1..n |-> [attempt |-> attempt, page |-> p, idx |-> i]]

\* `"Nenhum documento encontrado!" in error_message`, for a text or None
NoDocumentFound(message) ==
    message /= None /\ Contains(message, NO_DOCUMENT_FOUND)

\* _get_raw_summary_locators called at statement `at`, for page p: the list
\* goes to raw_summary_locators and the attempt goes on at `next`
GetRawSummaryLocators(at, next, p) ==
    /\ pc = at
    /\ Did(<<pc>>)
    /\ \/ \* fragments found
          \E n \in 1..MaxFragments :
            /\ raw_summary_locators' = Locators(n, p)
            /\ extraction' = [found |-> n, message |-> Unread, result |-> "list"]
            /\ current_page' = p
            /\ Continue(next)
       \/ \* no fragment, and the text of div.erroMensagem is read
          \E message \in ErrorMessages :
            /\ raw_summary_locators' =
                  IF NoDocumentFound(message) THEN <<>> ELSE Locators(0, p)
            /\ extraction' = [found |-> 0, message |-> message, result |-> "list"]
            /\ current_page' = p
            /\ Continue(next)
       \/ \* no fragment, and text_content times out: RuntimeError from it
          /\ extraction' = [found |-> 0, message |-> Raised, result |-> "raised"]
          /\ Propagate("RuntimeError")
          /\ UNCHANGED <<raw_summary_locators, current_page>>
       \/ \* no fragment, and text_content fails otherwise
          /\ extraction' = [found |-> 0, message |-> Raised, result |-> "error"]
          /\ Propagate("Error")
          /\ UNCHANGED <<raw_summary_locators, current_page>>
       \/ \* locator(...).all() fails
          /\ extraction' = [found |-> -1, message |-> Unread, result |-> "error"]
          /\ Propagate("Error")
          /\ UNCHANGED <<raw_summary_locators, current_page>>
    /\ UNCHANGED <<desired_page, built, bIdx>>

\* line 95-97: the first extraction, then current_page = 1
Extract == GetRawSummaryLocators("extract", "paginate", 1)

\* line 104-106: the extraction after a page turn, then current_page += 1
ReExtract == GetRawSummaryLocators("re_extract", "paginate", current_page + 1)

\* a faulty loop test: the loop ends one page before the desired one
Paginate_StopsEarly ==
    /\ pc = "paginate"
    /\ IF current_page + 1 < desired_page
       THEN pc' = "next_page" /\ UNCHANGED <<built, bIdx>>
       ELSE pc' = "build" /\ built' = <<>> /\ bIdx' = 1
    /\ UNCHANGED <<attempt, last_error, desired_page, current_page,
                   raw_summary_locators, extraction, outcome, log, steps>>

\* `while current_page != desired_page`
Paginate ==
    /\ pc = "paginate"
    /\ IF current_page /= desired_page
       THEN pc' = "next_page" /\ UNCHANGED <<built, bIdx>>
       ELSE pc' = "build" /\ built' = <<>> /\ bIdx' = 1
    /\ UNCHANGED <<attempt, last_error, desired_page, current_page,
                   raw_summary_locators, extraction, outcome, log, steps>>

\* `locator("a.iconeProximaPagina").all()` and the click on its first element
NextPage ==
    /\ pc = "next_page"
    /\ \/ \E anchors \in 0..1 :
            IF anchors = 0
            THEN Did(<<"next_page">>) /\ Propagate("IndexError")
            ELSE Did(<<"next_page", "click">>) /\ Continue("wait_load")
       \/ /\ Did(<<"next_page">>)
          /\ \E kind \in {"TimeoutError", "Error"} : Propagate(kind)
    /\ UNCHANGED <<desired_page, current_page, raw_summary_locators, extraction,
                   built, bIdx>>

\* the comprehension of line 108-112, one locator at a time, and the return
Build ==
    /\ pc = "build"
    /\ IF bIdx > Len(raw_summary_locators)
       THEN /\ outcome' = [kind |-> "returned", value |-> built]
            /\ pc' = "done"
            /\ UNCHANGED <<attempt, last_error, log, built, bIdx, steps>>
       ELSE /\ Did(<<pc>>)
            /\
               \/ \E text \in FragmentTexts :
                   /\ built' = IF text /= None
                               THEN Append(built,
                                           LegalPrecedent(text, raw_summary_locators[bIdx]))
                               ELSE built
                   /\ bIdx' = bIdx + 1
                   /\ Continue("build")
               \/ /\ \E kind \in {"TimeoutError", "Error"} : Propagate(kind)
                  /\ UNCHANGED <<built, bIdx>>
    /\ UNCHANGED <<desired_page, current_page, raw_summary_locators, extraction>>

StjInit(at, pages) ==
    /\ pc = at
    /\ attempt = 1
    /\ last_error = NoError
    /\ desired_page \in pages
    /\ current_page = 0
    /\ raw_summary_locators = <<>>
    /\ extraction = NoExtraction
    /\ built = <<>>
    /\ bIdx = 0
    /\ outcome = [kind |-> "pending"]
    /\ log = <<>>
    /\ steps = <<>>

\* ----------------------------------------------------------- domain/tjes.py
PER_PAGE == 20
MIN_EMENTA_LENGTH == 30
MAX_QUOTED_TERMS_WITH_AND == 2

Quote == "\""

\* the index of the first quote character of s, 0 when it has none
FirstQuote(s) ==
    IF \E i \in 1..Len(s) : s[i] = Quote
    THEN CHOOSE i \in 1..Len(s) : s[i] = Quote /\ \A j \in 1..(i - 1) : s[j] /= Quote
    ELSE 0

RECURSIVE quoted_terms(_)
\* re.findall(r'"[^"]*"', query): the matches, left to right, not overlapping
quoted_terms(s) ==
    LET i == FirstQuote(s)
        rest == SubSeq(s, i + 1, Len(s))
        j == FirstQuote(rest)
    IN IF i = 0 \/ j = 0
       THEN <<>>
       ELSE <<SubSeq(s, i, i + j)>> \o quoted_terms(SubSeq(rest, j + 1, Len(rest)))

RECURSIVE strip_quoted(_)
\* re.sub(r'"([^"]*)"', r'\1', query): each match replaced by what it quotes
strip_quoted(s) ==
    LET i == FirstQuote(s)
        rest == SubSeq(s, i + 1, Len(s))
        j == FirstQuote(rest)
    IN IF i = 0 \/ j = 0
       THEN s
       ELSE SubSeq(s, 1, i - 1) \o SubSeq(rest, 1, j - 1)
            \o strip_quoted(SubSeq(rest, j + 1, Len(rest)))

\* a faulty threshold test: two quoted terms already produce a fallback
sanitize_query_Below(q) ==
    IF Len(quoted_terms(q)) < MAX_QUOTED_TERMS_WITH_AND
    THEN <<q, None>>
    ELSE <<q, strip_quoted(q)>>

\* _sanitize_query: <<primary_query, fallback_query or None>>
sanitize_query(q) ==
    IF Len(quoted_terms(q)) <= MAX_QUOTED_TERMS_WITH_AND
    THEN <<q, None>>
    ELSE <<q, strip_quoted(q)>>

RECURSIVE quote_plus(_)
\* urllib.parse.quote_plus on the characters the queries here are made of
quote_plus(s) ==
    IF s = <<>> THEN <<>>
    ELSE (CASE Head(s) = " " -> <<"+">>
            [] Head(s) = Quote -> <<"%", "2", "2">>
            [] OTHER -> <<Head(s)>>) \o quote_plus(Tail(s))

\* the search URL: its query string, parameter by parameter
SearchUrl(q, page) ==
    [core |-> "pje2g", q |-> quote_plus(q), page |-> page, per_page |-> PER_PAGE]
NoUrl == [none |-> TRUE]

\* the labels of _build_summary; their non-ASCII characters are written in ASCII
L_PROCESSO == <<"P","R","O","C","E","S","S","O",":"," ">>
L_SEP == <<" ","-"," ">>
L_RELATOR == <<"R","E","L","A","T","O","R","(","A",")",":"," ">>
L_ORGAO == <<"O","R","G","A","O"," ","J","U","L","G","A","D","O","R",":"," ">>
L_DATA == <<"D","A","T","A",":"," ">>
L_ASSUNTO == <<"A","S","S","U","N","T","O",":"," ">>
L_EMENTA == <<"\n","E","M","E","N","T","A",":","\n">>
L_INTEIRO_TEOR == <<"\n","I","N","T","E","I","R","O"," ","T","E","O","R",":","\n">>

\* `x or y` for texts
Or(x, y) == IF x /= <<>> THEN x ELSE y

\* TjesLegalPrecedent._build_summary; a key the document lacks reads as ""
build_summary(doc) ==
    LET header == IF doc.nr_processo /= <<>>
                  THEN << L_PROCESSO \o doc.nr_processo \o
                          (IF doc.classe_judicial /= <<>>
                           THEN L_SEP \o doc.classe_judicial ELSE <<>>) >>
                  ELSE <<>>
        relator == IF doc.magistrado /= <<>>
                   THEN << L_RELATOR \o doc.magistrado >> ELSE <<>>
        orgao == IF doc.orgao_julgador /= <<>>
                 THEN << L_ORGAO \o doc.orgao_julgador >> ELSE <<>>
        data == IF doc.dt_juntada /= <<>>
                THEN << L_DATA \o SubSeq(doc.dt_juntada, 1,
                                         IF Len(doc.dt_juntada) < 10
                                         THEN Len(doc.dt_juntada) ELSE 10) >>
                ELSE <<>>
        assunto == IF doc.assunto_principal /= <<>>
                   THEN << L_ASSUNTO \o doc.assunto_principal >> ELSE <<>>
        acordao == Or(doc.acordao, Or(doc.inteiro_teor, <<>>))
        body == IF Len(Strip(doc.ementa)) > MIN_EMENTA_LENGTH
                THEN << L_EMENTA \o Strip(doc.ementa) >>
                ELSE IF Strip(acordao) /= <<>>
                     THEN << L_INTEIRO_TEOR \o Strip(acordao) >>
                     ELSE <<>>
    IN Join(<<"\n">>, header \o relator \o orgao \o data \o assunto \o body)

\* ---- the documents, responses and queries drawn
NoDoc ==
    [nr_processo |-> <<>>, classe_judicial |-> <<>>, magistrado |-> <<>>,
     orgao_julgador |-> <<>>, dt_juntada |-> <<>>, assunto_principal |-> <<>>,
     ementa |-> <<>>, acordao |-> <<>>, inteiro_teor |-> <<>>]

IsoDate == <<"2","0","2","4","-","0","5","-","1","7","T","1","0",":","3","0",":","0","0">>

DocSamples ==
    { NoDoc,
      \* a class without a process number gives no header
      [NoDoc EXCEPT !.classe_judicial = <<"A","C">>],
      [NoDoc EXCEPT !.nr_processo = <<"1">>, !.classe_judicial = <<"A","C">>,
                    !.dt_juntada = IsoDate],
      \* a blank reporting judge is still a line
      [NoDoc EXCEPT !.magistrado = <<" ">>],
      \* abstracts around the minimum length
      [NoDoc EXCEPT !.ementa = <<" ">> \o Repeat("e", MIN_EMENTA_LENGTH + 1) \o <<" ">>],
      [NoDoc EXCEPT !.ementa = Repeat("e", MIN_EMENTA_LENGTH)],
      [NoDoc EXCEPT !.ementa = Repeat("e", MIN_EMENTA_LENGTH),
                    !.inteiro_teor = <<"t">>],
      \* a blank acordao hides the full text
      [NoDoc EXCEPT !.acordao = <<" ">>, !.inteiro_teor = <<"t">>] }

DocLists == UNION { [1..n -> DocSamples] : n \in 0..MaxDocs }

\* JSON values resp.json() may give
JsonNull == [t |-> "null"]
JsonArray(items) == [t |-> "array", items |-> items]
JsonBodies ==
    { [t |-> "object", keys |-> {"docs", "total"}, docs |-> JsonArray(ds), total |-> n] :
          ds \in DocLists, n \in {0, 7} }
    \cup { [t |-> "object", keys |-> {"docs"}, docs |-> JsonArray(ds)] :
               ds \in { ds \in DocLists : Len(ds) <= 1 } }
    \cup { [t |-> "object", keys |-> {}],
           [t |-> "object", keys |-> {"docs", "total"}, docs |-> JsonNull, total |-> 0],
           JsonNull,
           JsonArray(<<>>) }

\* dict.get(key, default) on a JSON object
Get(obj, key, default) ==
    IF key \in obj.keys THEN (IF key = "docs" THEN obj.docs ELSE obj.total) ELSE default

\* HTTP statuses of the API, and 0 for a fetch that fails with no response
Statuses == {200, 403, 500, 0}
RespOk(status) == status >= 200 /\ status <= 299

Queries == { <<"d","a","n","o"," ","m","o","r","a","l">>, <<"\"","d","a","n","o","\""," ","A","N","D"," ","\"","m","o","r","a","l","\"">>, <<"\"","a","\""," ","A","N","D"," ","\"","b","\""," ","A","N","D"," ","\"","c","\"">>, <<"\"","\"","\"","\"","\"","\"">> }

NoResult == [t |-> "none"]
EvaluateRaised == [t |-> "exception"]

TjesReturn(value) ==
    /\ toutcome' = [kind |-> "returned", value |-> value]
    /\ tpc' = "done"

TjesRaise(error) ==
    /\ toutcome' = [kind |-> "raised", error |-> error]
    /\ tpc' = "done"

\* line 100-122: the landing page, then the sanitized query and the URLs
TjesGoto ==
    /\ tpc = "goto"
    /\ \/ /\ LET sq == sanitize_query(query)
                 primary_query == sq[1]
                 fallback_query == sq[2]
             IN urls' = << SearchUrl(primary_query, tpage),
                           IF fallback_query /= None /\ fallback_query /= <<>>
                           THEN SearchUrl(fallback_query, tpage)
                           ELSE NoUrl >>
          /\ tpc' = "evaluate"
          /\ UNCHANGED toutcome
       \/ /\ \E kind \in {"TimeoutError", "Error"} : TjesRaise(kind)
          /\ UNCHANGED urls
    /\ UNCHANGED <<query, tpage, requests, responses, result, precedents, docIdx>>

\* no fetch made yet
NoResponses == [statuses |-> <<>>, body |-> NoResult]

\* a faulty script: the retry is made after any failed status
FetchJs_RetryAnyFailure(url, retryUrl, status1, status2, body) ==
    LET retry == status1 /= 0 /\ ~RespOk(status1) /\ retryUrl /= NoUrl
        last == IF retry THEN status2 ELSE status1
    IN [ requests |-> IF retry THEN <<url, retryUrl>> ELSE <<url>>,
         statuses |-> IF retry THEN <<status1, status2>> ELSE <<status1>>,
         parsed |-> IF RespOk(last) THEN body ELSE NoResult,
         value |-> IF status1 = 0 \/ ~RespOk(last) THEN EvaluateRaised ELSE body ]

\* _FETCH_JS run by browser.evaluate: the requests made, the status of each
\* (0 when fetch itself fails), the body resp.json() was asked to parse, and
\* the value handed to Python: the parsed body or EvaluateRaised
FetchJs(url, retryUrl, status1, status2, body) ==
    LET retry == status1 = 403 /\ retryUrl /= NoUrl
        last == IF retry THEN status2 ELSE status1
    IN [ requests |-> IF retry THEN <<url, retryUrl>> ELSE <<url>>,
         statuses |-> IF retry THEN <<status1, status2>> ELSE <<status1>>,
         parsed |-> IF RespOk(last) THEN body ELSE NoResult,
         value |-> IF status1 = 0 \/ ~RespOk(last) THEN EvaluateRaised ELSE body ]

\* line 124-130: the in-browser fetch; any exception gives []
TjesEvaluate ==
    /\ tpc = "evaluate"
    /\ \E status1 \in Statuses, status2 \in Statuses,
          body \in JsonBodies \cup {EvaluateRaised} :
        LET fetched == FetchJs(urls[1], urls[2], status1, status2, body)
        IN /\ requests' = fetched.requests
           /\ responses' = [statuses |-> fetched.statuses, body |-> fetched.parsed]
           /\ result' = fetched.value
           /\ IF fetched.value = EvaluateRaised
              THEN TjesReturn(<<>>)
              ELSE tpc' = "read" /\ UNCHANGED toutcome
    /\ UNCHANGED <<query, tpage, urls, precedents, docIdx>>

\* line 132-145: docs and total out of the result, the log line, the early
\* return
TjesRead ==
    /\ tpc = "read"
    /\ IF result.t /= "object"
       THEN \* result.get on a value that is no dict
            TjesRaise("AttributeError") /\ UNCHANGED <<precedents, docIdx>>
       ELSE LET docs == Get(result, "docs", JsonArray(<<>>))
                total == Get(result, "total", 0)
            IN IF docs.t /= "array"
               THEN \* len(docs) on None
                    TjesRaise("TypeError") /\ UNCHANGED <<precedents, docIdx>>
               ELSE IF docs.items = <<>>
                    THEN TjesReturn(<<>>) /\ UNCHANGED <<precedents, docIdx>>
                    ELSE /\ precedents' = <<>>
                         /\ docIdx' = 1
                         /\ tpc' = "loop"
                         /\ UNCHANGED toutcome
    /\ UNCHANGED <<query, tpage, urls, requests, responses, result>>

\* a faulty loop body: the loop ends at the first document without a summary
TjesLoop_StopsAtEmpty ==
    /\ tpc = "loop"
    /\ LET docs == result.docs.items
       IN IF docIdx > Len(docs)
          THEN TjesReturn(precedents) /\ UNCHANGED <<precedents, docIdx>>
          ELSE LET summary == build_summary(docs[docIdx])
               IN IF Strip(summary) /= <<>>
                  THEN /\ precedents' = Append(precedents, LegalPrecedent(summary, docIdx))
                       /\ docIdx' = docIdx + 1
                       /\ UNCHANGED <<tpc, toutcome>>
                  ELSE TjesReturn(precedents) /\ UNCHANGED <<precedents, docIdx>>
    /\ UNCHANGED <<query, tpage, urls, requests, responses, result>>

\* line 146-153: `for doc in docs`, one document at a time, and the return
TjesLoop ==
    /\ tpc = "loop"
    /\ LET docs == result.docs.items
       IN IF docIdx > Len(docs)
          THEN TjesReturn(precedents) /\ UNCHANGED <<precedents, docIdx>>
          ELSE LET summary == build_summary(docs[docIdx])
               IN /\ precedents' = IF Strip(summary) /= <<>>
                                   THEN Append(precedents,
                                               LegalPrecedent(summary, docIdx))
                                   ELSE precedents
                  /\ docIdx' = docIdx + 1
                  /\ UNCHANGED <<tpc, toutcome>>
    /\ UNCHANGED <<query, tpage, urls, requests, responses, result>>

TjesInit(at, queries, pages) ==
    /\ tpc = at
    /\ query \in queries
    /\ tpage \in pages
    /\ urls = <<NoUrl, NoUrl>>
    /\ requests = <<>>
    /\ responses = NoResponses
    /\ result = NoResult
    /\ precedents = <<>>
    /\ docIdx = 0
    /\ toutcome = [kind |-> "pending"]

TjesIdle == TjesInit("idle", {<<>>}, {1})

\* ------------------------------------------------- functions on their own
\* longest query drawn for _sanitize_query
MaxQueryLen == 7
\* the characters the drawn queries are made of
QueryAlphabet == {Quote, "a", "b"}
SanitizeInputs == UNION { [1..n -> QueryAlphabet] : n \in 0..MaxQueryLen }

\* no value yet
Unapplied == <<>>

\* `primary, fallback = _sanitize_query(query)`
Sanitize ==
    /\ fpc = "sanitize"
    /\ fout' = sanitize_query(fin)
    /\ fpc' = "sanitized"
    /\ UNCHANGED <<fin, fagain>>

\* _sanitize_query applied to the primary query it returned
SanitizeAgain ==
    /\ fpc = "sanitized"
    /\ fagain' = sanitize_query(fout[1])
    /\ fpc' = "resanitized"
    /\ UNCHANGED <<fin, fout>>

\* longest run of other characters before and after the body of a drawn title
MaxTitlePad == 1

UpperChar(c) ==
    IF \E i \in 1..Len(Lowers) : Lowers[i] = c
    THEN Upper[CHOOSE i \in 1..Len(Lowers) : Lowers[i] = c]
    ELSE c

\* s with any of its letters in upper case
CaseVariants(s) ==
    { [i \in 1..Len(s) |-> IF i \in up THEN UpperChar(s[i]) ELSE s[i]] :
          up \in SUBSET (1..Len(s)) }

\* s with one character left out
Deletions(s) ==
    { SubSeq(s, 1, i - 1) \o SubSeq(s, i + 1, Len(s)) : i \in 1..Len(s) }

\* titles drawn for is_cloudflare_challenge: every keyword in every casing,
\* every keyword short of one character in lower and in upper case, and the
\* empty body, each alone and between other characters
TitleBodies ==
    UNION { CaseVariants(kw) : kw \in CHALLENGE_TITLE_KEYWORDS }
    \cup UNION { Deletions(kw) : kw \in CHALLENGE_TITLE_KEYWORDS }
    \cup UNION { { [i \in 1..Len(d) |-> UpperChar(d[i])] : d \in Deletions(kw) } :
                     kw \in CHALLENGE_TITLE_KEYWORDS }
    \cup { <<>> }
TitleSamples ==
    { Repeat("x", m) \o body \o Repeat(" ", n) :
          m \in 0..MaxTitlePad, n \in 0..MaxTitlePad, body \in TitleBodies }

\* what page.input_value may return or do
TokenReads == TokenValues \cup { <<" ">>, <<"0">>, Raised }

\* `await is_cloudflare_challenge(page)` on a page with the title fin
DetectTitle ==
    /\ fpc = "title"
    /\ fout' = is_cloudflare_challenge(fin)
    /\ fpc' = "detected"
    /\ UNCHANGED <<fin, fagain>>

\* `await _has_turnstile_response(page)` when the read of the field gives fin
ProbeToken ==
    /\ fpc = "token"
    /\ fout' = has_turnstile_response(fin)
    /\ fpc' = "probed"
    /\ UNCHANGED <<fin, fagain>>

PureInit(at, inputs) ==
    /\ fpc = at
    /\ fin \in inputs
    /\ fout = Unapplied
    /\ fagain = Unapplied

PureIdle == PureInit("idle", {<<>>})

\* ------------------------------------------- concurrent calls of research
\* number of research calls in flight, each on a browser session of its own
MaxCalls == 2
Calls == 1..MaxCalls

\* the locals of one call of research, with the events of that call in order
NewCall ==
    [ pc |-> "research", attempt |-> 1, last_error |-> NoError,
      outcome |-> [kind |-> "pending"], own |-> <<>> ]

\* the page of one browser session: what it shows, how often it was sent to
\* about:blank and by which calls
NewSession == [url |-> "new", resets |-> 0, by |-> {}]

\* call c reaches its next statement
CContinue(c, next) == calls' = [calls EXCEPT ![c].pc = next]

\* an exception of class kind leaves _attempt_research in call c
CPropagate(c, kind) ==
    LET me == calls[c]
        logged == Append(me.own, [ev |-> "fail", n |-> me.attempt, kind |-> kind])
    IN calls' = [calls EXCEPT ![c] =
         IF Retryable(kind)
         THEN [me EXCEPT !.own = logged,
                         !.last_error = [kind |-> kind, attempt |-> me.attempt],
                         !.pc = IF me.attempt < MAX_RETRIES THEN "reset" ELSE "research",
                         !.attempt = IF me.attempt < MAX_RETRIES THEN @ ELSE @ + 1]
         ELSE [me EXCEPT !.own = logged,
                         !.outcome = [kind |-> "raised", error |-> kind,
                                      aggregated |-> FALSE, cause |-> NoError],
                         !.pc = "done"]]

\* the loop head of research in call c, and the raise after the loop
CResearchLoop(c) ==
    /\ calls[c].pc = "research"
    /\ calls' = [calls EXCEPT ![c] =
         IF @.attempt <= MAX_RETRIES
         THEN [@ EXCEPT !.pc = "goto",
                        !.own = Append(@, [ev |-> "attempt", n |-> calls[c].attempt])]
         ELSE [@ EXCEPT !.pc = "done",
                        !.outcome = [kind |-> "raised", error |-> "RuntimeError",
                                     aggregated |-> TRUE,
                                     cause |-> calls[c].last_error]]]
    /\ UNCHANGED sessions

\* `await browser.goto("https://scon.stj.jus.br/SCON/", ...)` in call c
CGoto(c) ==
    /\ calls[c].pc = "goto"
    /\ \/ /\ sessions' = [sessions EXCEPT ![c].url = "stj"]
          /\ CContinue(c, "detect")
       \/ /\ \E kind \in {"TimeoutError", "Error"} : CPropagate(c, kind)
          /\ UNCHANGED sessions

\* the detector and, on a challenge, the solver, in call c
CDetect(c) ==
    /\ calls[c].pc = "detect"
    /\ \/ \E title \in Titles :
            CContinue(c, IF is_cloudflare_challenge(title) THEN "solve" ELSE "search")
       \/ CPropagate(c, "Error")
    /\ UNCHANGED sessions

CSolve(c) ==
    /\ calls[c].pc = "solve"
    /\ \E solved \in SolverOutcomes :
        CASE solved = "true" -> CContinue(c, "search")
          [] solved = "false" -> CPropagate(c, "RuntimeError")
          [] solved = "raised" -> CPropagate(c, "Error")
    /\ UNCHANGED sessions

\* the waits, the fill and the submission of call c, on its own page: they
\* find their elements only on the search page
CSearch(c) ==
    /\ calls[c].pc = "search"
    /\ \/ sessions[c].url = "stj" /\ CContinue(c, "extract")
       \/ \E kind \in {"TimeoutError", "Error"} : CPropagate(c, kind)
    /\ UNCHANGED sessions

\* the extraction, the page turns and the final comprehension of call c: the
\* list is built from the page of its session in its current attempt
CExtract(c) ==
    /\ calls[c].pc = "extract"
    /\ \/ /\ sessions[c].url = "stj"
          /\ calls' = [calls EXCEPT ![c].pc = "done",
                                     ![c].outcome =
                                        [kind |-> "returned",
                                         value |-> [session |-> c,
                                                    attempt |-> calls[c].attempt]]]
       \/ \E kind \in {"TimeoutError", "RuntimeError", "IndexError", "Error"} :
            CPropagate(c, kind)
    /\ UNCHANGED sessions

\* a faulty reset: every session is sent to about:blank, not only the one of
\* the call
CReset_EverySession(c) ==
    /\ calls[c].pc = "reset"
    /\ \E ok \in BOOLEAN :
        /\ sessions' = [d \in Calls |->
                          [ url |-> IF ok THEN "blank" ELSE sessions[d].url,
                            resets |-> sessions[d].resets + 1,
                            by |-> sessions[d].by \cup {c} ]]
        /\ calls' = [calls EXCEPT ![c] =
              [@ EXCEPT !.own = Append(@, [ev |-> "reset", n |-> calls[c].attempt,
                                           ok |-> ok]),
                        !.attempt = @ + 1,
                        !.pc = "research"]]

\* `with contextlib.suppress(Exception): await browser.goto("about:blank")`
\* in call c, on the session it was given
CReset(c) ==
    /\ calls[c].pc = "reset"
    /\ \E ok \in BOOLEAN :
        /\ sessions' = [sessions EXCEPT ![c] =
                          [ url |-> IF ok THEN "blank" ELSE @.url,
                            resets |-> @.resets + 1,
                            by |-> @.by \cup {c} ]]
        /\ calls' = [calls EXCEPT ![c] =
              [@ EXCEPT !.own = Append(@, [ev |-> "reset", n |-> calls[c].attempt,
                                           ok |-> ok]),
                        !.attempt = @ + 1,
                        !.pc = "research"]]

ConcInit ==
    /\ calls = [c \in Calls |-> NewCall]
    /\ sessions = [c \in Calls |-> NewSession]

\* two calls not started
ConcIdle == calls = <<>> /\ sessions = <<>>

\* ------------------------------------------------------------ specifications
\* one call of solve_cloudflare_challenge on a page
InitSolver ==
    SolverInit("start") /\ StjInit("idle", {1}) /\ TjesIdle /\ PureIdle /\ ConcIdle

NextSolver ==
    \/ SolverEnter /\ UNCHANGED <<stjVars, tjesVars, pureVars, concVars>>
    \/ SolverLoopHead /\ UNCHANGED <<stjVars, tjesVars, pureVars, concVars>>
    \/ CheckTitle /\ UNCHANGED <<stjVars, tjesVars, pureVars, concVars>>
    \/ CheckToken /\ UNCHANGED <<stjVars, tjesVars, pureVars, concVars>>
    \/ SolverSettle /\ UNCHANGED <<stjVars, tjesVars, pureVars, concVars>>
    \/ FindFrame /\ UNCHANGED <<stjVars, tjesVars, pureVars, concVars>>
    \/ FrameElement /\ UNCHANGED <<stjVars, tjesVars, pureVars, concVars>>
    \/ BoundingBox /\ UNCHANGED <<stjVars, tjesVars, pureVars, concVars>>
    \/ Click /\ UNCHANGED <<stjVars, tjesVars, pureVars, concVars>>
    \/ RecheckTitle /\ UNCHANGED <<stjVars, tjesVars, pureVars, concVars>>
    \/ RecheckToken /\ UNCHANGED <<stjVars, tjesVars, pureVars, concVars>>

SpecSolver == InitSolver /\ [][NextSolver]_vars

\* one call of StjLegalPrecedent.research
InitStj ==
    /\ SolverInit("idle") /\ StjInit("research", 1..MaxPage) /\ TjesIdle
    /\ PureIdle /\ ConcIdle

NextStj ==
    \/ ResearchLoop /\ UNCHANGED <<solverVars, tjesVars, pureVars, concVars>>
    \/ ResetSession /\ UNCHANGED <<solverVars, tjesVars, pureVars, concVars>>
    \/ DriverStep /\ UNCHANGED <<solverVars, tjesVars, pureVars, concVars>>
    \/ Detect /\ UNCHANGED <<solverVars, tjesVars, pureVars, concVars>>
    \/ Solve /\ UNCHANGED <<solverVars, tjesVars, pureVars, concVars>>
    \/ Extract /\ UNCHANGED <<solverVars, tjesVars, pureVars, concVars>>
    \/ Paginate /\ UNCHANGED <<solverVars, tjesVars, pureVars, concVars>>
    \/ NextPage /\ UNCHANGED <<solverVars, tjesVars, pureVars, concVars>>
    \/ ReExtract /\ UNCHANGED <<solverVars, tjesVars, pureVars, concVars>>
    \/ Build /\ UNCHANGED <<solverVars, tjesVars, pureVars, concVars>>

SpecStj == InitStj /\ [][NextStj]_vars

\* one call of TjesLegalPrecedent.research
InitTjes ==
    /\ SolverInit("idle") /\ StjInit("idle", {1})
    /\ TjesInit("goto", Queries, 1..MaxPage) /\ PureIdle /\ ConcIdle

NextTjes ==
    \/ TjesGoto /\ UNCHANGED <<solverVars, stjVars, pureVars, concVars>>
    \/ TjesEvaluate /\ UNCHANGED <<solverVars, stjVars, pureVars, concVars>>
    \/ TjesRead /\ UNCHANGED <<solverVars, stjVars, pureVars, concVars>>
    \/ TjesLoop /\ UNCHANGED <<solverVars, stjVars, pureVars, concVars>>

SpecTjes == InitTjes /\ [][NextTjes]_vars

\* _sanitize_query applied to every query up to MaxQueryLen characters
InitSanitize ==
    /\ SolverInit("idle") /\ StjInit("idle", {1}) /\ TjesIdle
    /\ PureInit("sanitize", SanitizeInputs) /\ ConcIdle

NextSanitize ==
    \/ Sanitize /\ UNCHANGED <<solverVars, stjVars, tjesVars, concVars>>
    \/ SanitizeAgain /\ UNCHANGED <<solverVars, stjVars, tjesVars, concVars>>

SpecSanitize == InitSanitize /\ [][NextSanitize]_vars

\* is_cloudflare_challenge and _has_turnstile_response applied to what the
\* driver may report
InitDetector ==
    /\ SolverInit("idle") /\ StjInit("idle", {1}) /\ TjesIdle /\ ConcIdle
    /\ \/ PureInit("title", TitleSamples)
       \/ PureInit("token", TokenReads)

NextDetector ==
    \/ DetectTitle /\ UNCHANGED <<solverVars, stjVars, tjesVars, concVars>>
    \/ ProbeToken /\ UNCHANGED <<solverVars, stjVars, tjesVars, concVars>>

SpecDetector == InitDetector /\ [][NextDetector]_vars

\* research calls running concurrently, each step of a call being one
\* suspension point, interleaved in any order
InitConc ==
    /\ SolverInit("idle") /\ StjInit("idle", {1}) /\ TjesIdle /\ PureIdle
    /\ ConcInit

NextConc ==
    \/ (\E c \in Calls : CResearchLoop(c)) /\ UNCHANGED <<solverVars, stjVars, tjesVars, pureVars>>
    \/ (\E c \in Calls : CGoto(c)) /\ UNCHANGED <<solverVars, stjVars, tjesVars, pureVars>>
    \/ (\E c \in Calls : CDetect(c)) /\ UNCHANGED <<solverVars, stjVars, tjesVars, pureVars>>
    \/ (\E c \in Calls : CSolve(c)) /\ UNCHANGED <<solverVars, stjVars, tjesVars, pureVars>>
    \/ (\E c \in Calls : CSearch(c)) /\ UNCHANGED <<solverVars, stjVars, tjesVars, pureVars>>
    \/ (\E c \in Calls : CExtract(c)) /\ UNCHANGED <<solverVars, stjVars, tjesVars, pureVars>>
    \/ (\E c \in Calls : CReset(c)) /\ UNCHANGED <<solverVars, stjVars, tjesVars, pureVars>>

SpecConc == InitConc /\ [][NextConc]_vars

\* ------------------------------------------------------------------ claims
AttemptsStarted == Cardinality({i \in 1..Len(log) : log[i].ev = "attempt"})
ResetsDone == Cardinality({i \in 1..Len(log) : log[i].ev = "reset"})
FailedWith(n, kind) ==
    \E i \in 1..Len(log) : log[i] = [ev |-> "fail", n |-> n, kind |-> kind]

\* C1 (as claimed): when the selector matches no fragment, the extraction
\* returns the empty list if the page shows "Nenhum documento encontrado!" and
\* raises in every other case (the error element absent, or present with
\* another text or none).
C1_ZeroFragments ==
    (extraction.found = 0 /\ extraction.result /= "none") =>
        IF NoDocumentFound(extraction.message)
        THEN extraction.result = "list" /\ raw_summary_locators = <<>>
        ELSE extraction.result \in {"raised", "error"}

\* C2: when attempt 1 fails with a TimeoutError, attempt 2 is always started,
\* whether or not the reset navigation failed; and when attempt 2 succeeds the
\* call returns the records attempt 2 built, after exactly one reset, made
\* between the failure of attempt 1 and the start of attempt 2.
C2_RetryAfterTimeout ==
    FailedWith(1, "TimeoutError") =>
        /\ pc = "done" => AttemptsStarted = 2
        /\ outcome.kind = "returned" =>
            /\ Len(log) = 4
            /\ log[1] = [ev |-> "attempt", n |-> 1]
            /\ log[2] = [ev |-> "fail", n |-> 1, kind |-> "TimeoutError"]
            /\ log[3].ev = "reset" /\ log[3].n = 1
            /\ log[4] = [ev |-> "attempt", n |-> 2]
            /\ ResetsDone = 1
            /\ outcome.value = built
            /\ \A i \in 1..Len(outcome.value) : outcome.value[i].src.attempt = 2

\* attempt 1 timed out, the reset failed, and attempt 2 returned records
C2_Witness ==
    /\ outcome.kind = "returned"
    /\ FailedWith(1, "TimeoutError")
    /\ log[3] = [ev |-> "reset", n |-> 1, ok |-> FALSE]
    /\ Len(outcome.value) > 0

\* C3: when every attempt fails with a TimeoutError or RuntimeError, research
\* makes exactly _MAX_RETRIES attempts with one reset between them and none
\* after the last, then raises one RuntimeError whose cause is the error of
\* the last attempt; and a call that returned a list made nothing after the
\* attempt that returned it.
C3_Exhaustion ==
    /\ (pc = "done" /\ \E k \in {"TimeoutError", "RuntimeError"} :
                            FailedWith(MAX_RETRIES, k))
          => (outcome.kind = "raised" /\ outcome.aggregated)
    /\ (outcome.kind = "raised" /\ outcome.aggregated) =>
          /\ AttemptsStarted = MAX_RETRIES
          /\ ResetsDone = MAX_RETRIES - 1
          /\ Len(log) = 5
          /\ log[1] = [ev |-> "attempt", n |-> 1]
          /\ log[2].ev = "fail" /\ log[2].n = 1 /\ Retryable(log[2].kind)
          /\ log[3].ev = "reset" /\ log[3].n = 1
          /\ log[4] = [ev |-> "attempt", n |-> 2]
          /\ log[5].ev = "fail" /\ log[5].n = 2 /\ Retryable(log[5].kind)
          /\ outcome.cause = [kind |-> log[5].kind, attempt |-> 2]
    /\ outcome.kind = "returned" =>
          /\ pc = "done"
          /\ log[Len(log)] = [ev |-> "attempt", n |-> AttemptsStarted]

\* both attempts failed, with errors of different classes, and the aggregated
\* error was raised
C3_Witness ==
    /\ outcome.kind = "raised"
    /\ outcome.aggregated
    /\ log[2].kind = "TimeoutError"
    /\ log[5].kind = "RuntimeError"

\* C4 (as claimed): the caller sees a list or the aggregated error raised
\* after all attempts; every failure inside an attempt is retried.
C4_ListOrAggregatedError ==
    outcome.kind = "raised" =>
        (outcome.aggregated /\ AttemptsStarted = MAX_RETRIES)

\* C5: once a resolution check has observed the title changed or the token
\* present, the solver issues no further click and its only steps are the
\* settle sleep and the return of True.
C5_ReturnsOnResolution ==
    [][observed' =>
          /\ clicks' = clicks
          /\ \/ spc' = "returned" /\ sResult' = "true"
             \/ spc' = "settle"]_vars

\* True returned on a re-check made after a click
C5_Witness ==
    /\ spc = "returned"
    /\ sResult = "true"
    /\ observed
    /\ clicks > 0

\* C6 (as claimed): once the deadline has passed the solver performs no
\* further page operation and does not return True: its only step is the
\* return of False.
C6_NothingAfterDeadline ==
    [][(spc \in SolverActive /\ now >= deadline) =>
          (spc' = "returned" /\ sResult' = "false" /\ clicks' = clicks)]_vars

\* C6 (amended): the deadline is tested at the start of each iteration only.
\* An iteration that starts at or after the deadline, or after
\* _MAX_SOLVE_ATTEMPTS iterations, returns False at once with no page
\* operation; False is returned in no other case; after a return nothing is
\* done.
C6_FalseAtLoopHead ==
    /\ [][(spc = "loop" /\ (sAttempt > MAX_SOLVE_ATTEMPTS \/ now >= deadline)) =>
             /\ spc' = "returned" /\ sResult' = "false"
             /\ clicks' = clicks /\ now' = now]_vars
    /\ [][(spc' = "returned" /\ sResult' = "false") =>
             (spc = "loop" /\ (sAttempt > MAX_SOLVE_ATTEMPTS \/ now >= deadline))]_vars
    /\ [][(spc \in {"returned", "raised"}) => UNCHANGED solverVars]_vars

\* False returned at the deadline with attempts left, after at least one click
C6_Witness ==
    /\ spc = "returned"
    /\ sResult = "false"
    /\ now >= deadline
    /\ sAttempt <= MAX_SOLVE_ATTEMPTS
    /\ clicks > 0

\* False returned on the attempt budget, before the deadline
C6_BudgetFirst ==
    /\ spc = "returned"
    /\ sResult = "false"
    /\ now < deadline
    /\ sAttempt > MAX_SOLVE_ATTEMPTS

\* C7 (as claimed): solve_cloudflare_challenge never raises, whatever the
\* driver does.
C7_SolverNeverRaises == spc /= "raised"

\* the response was parsed into an object that holds a document list
HasDocumentList(r) == r.t = "object" /\ "docs" \in r.keys /\ r.docs.t = "array"

\* C8 (as claimed): when the in-browser request fails, or its response is not
\* an object with a document list, TJES research returns the empty list and
\* raises nothing.
C8_FailuresGiveEmptyList ==
    (tpc = "done" /\ requests /= <<>> /\ ~HasDocumentList(result)) =>
        toutcome = [kind |-> "returned", value |-> <<>>]

\* C9: for a response that holds a document list, TJES research returns one
\* record for each document whose summary is not empty after trimming and none
\* for the others, in the order of the documents, each with the summary built
\* from its document; the total takes no part.
C9_OneRecordPerSummary ==
    (toutcome.kind = "returned" /\ HasDocumentList(result)) =>
        LET docs == result.docs.items
            kept == {i \in 1..Len(docs) : Strip(build_summary(docs[i])) /= <<>>}
            v == toutcome.value
        IN /\ Len(v) = Cardinality(kept)
           /\ {v[k].src : k \in 1..Len(v)} = kept
           /\ \A k \in 1..(Len(v) - 1) : v[k].src < v[k + 1].src
           /\ \A k \in 1..Len(v) : v[k].summary = build_summary(docs[v[k].src])

\* two documents, the first without a summary, the second with one, and a
\* total that is not the number of documents
C9_Witness ==
    /\ toutcome.kind = "returned"
    /\ HasDocumentList(result)
    /\ Len(result.docs.items) = 2
    /\ Strip(build_summary(result.docs.items[1])) = <<>>
    /\ Len(toutcome.value) = 1
    /\ toutcome.value[1].src = 2
    /\ "total" \in result.keys /\ result.total = 7

\* C10 (as claimed), for STJ: every record research returns has a summary that
\* is not empty after trimming.
C10_SummariesNonEmpty ==
    outcome.kind = "returned" =>
        \A i \in 1..Len(outcome.value) : Strip(outcome.value[i].summary) /= <<>>

\* the quote characters of s taken out, everything else in place
WithoutQuotes(s) == SelectSeq(s, LAMBDA c : c /= Quote)
\* the number of quoted terms of s: each takes two quote characters
QuotedTermCount(s) == Len(SelectSeq(s, LAMBDA c : c = Quote)) \div 2

\* C11 (as claimed): for a query with more than two quoted terms,
\* _sanitize_query returns the query itself as primary and, as fallback, the
\* query with every quote character removed and every other character kept
\* in order, whatever the number of quote characters, odd numbers included.
C11_FallbackHasNoQuote ==
    (fpc \in {"sanitized", "resanitized"}
        /\ QuotedTermCount(fin) > MAX_QUOTED_TERMS_WITH_AND)
    => fout = <<fin, WithoutQuotes(fin)>>

\* C12: for a query with at most two quoted terms (none included),
\* _sanitize_query returns the query unchanged and no fallback; a fallback is
\* returned exactly when the query has more than two quoted terms; applying
\* the function to the primary query it returned gives the same pair again.
C12_NoFallbackUpToThreshold ==
    /\ (fpc \in {"sanitized", "resanitized"}) =>
          /\ fout[1] = fin
          /\ (QuotedTermCount(fin) <= MAX_QUOTED_TERMS_WITH_AND) => (fout = <<fin, None>>)
          /\ (fout[2] /= None) <=> (QuotedTermCount(fin) > MAX_QUOTED_TERMS_WITH_AND)
    /\ (fpc = "resanitized") => (fagain = fout)

\* a query of exactly two quoted terms and other text went through twice
C12_Witness ==
    /\ fpc = "resanitized"
    /\ QuotedTermCount(fin) = MAX_QUOTED_TERMS_WITH_AND
    /\ WithoutQuotes(fin) /= <<>>
    /\ fout = <<fin, None>>
    /\ fagain = fout

\* how many times the current attempt has executed the statement named
StepCount(name) == Cardinality({i \in 1..Len(steps) : steps[i] = name})

\* C13: in an STJ attempt for page p >= 1 the pagination loop ends with
\* current_page = p after exactly p - 1 clicks on the next-page control (none
\* for p = 1, never more than p - 1), each click is followed by the wait for
\* the load event and then by a re-extraction, and the records returned are
\* built from the fragments extracted on page p in that attempt.
C13_PaginationReachesDesiredPage ==
    /\ StepCount("click") <= desired_page - 1
    /\ \A i \in 1..Len(steps) :
          (steps[i] = "click") =>
            /\ (i + 1 <= Len(steps)) => (steps[i + 1] = "wait_load")
            /\ (i + 2 <= Len(steps)) => (steps[i + 2] = "re_extract")
    /\ (pc = "paginate") => (StepCount("click") = current_page - 1)
    /\ (pc = "build" \/ outcome.kind = "returned") =>
          /\ current_page = desired_page
          /\ StepCount("click") = desired_page - 1
          /\ StepCount("re_extract") = desired_page - 1
          /\ \A i \in 1..Len(raw_summary_locators) :
                /\ raw_summary_locators[i].page = desired_page
                /\ raw_summary_locators[i].attempt = attempt
          /\ \A i \in 1..Len(built) :
                /\ built[i].src.page = desired_page
                /\ built[i].src.attempt = attempt
    /\ (outcome.kind = "returned") => (outcome.value = built)

\* records of the largest page drawn were returned after the page turns
C13_Witness ==
    /\ outcome.kind = "returned"
    /\ desired_page = MaxPage
    /\ StepCount("click") = MaxPage - 1
    /\ Len(outcome.value) >= 1
    /\ outcome.value[1].src.page = MaxPage

\* title holds kw at some position, each letter in either case
HoldsIgnoringCase(title, kw) ==
    \E i \in 0..(Len(title) - Len(kw)) :
        \A j \in 1..Len(kw) : title[i + j] \in {kw[j], UpperChar(kw[j])}

\* C14: is_cloudflare_challenge returns true for every title that holds, in
\* any casing, one of "moment", "momento", "just a", and false for every
\* other title, the empty title included.
C14_DetectorMatchesKeywords ==
    (fpc = "detected") =>
        /\ fout = (\E kw \in CHALLENGE_TITLE_KEYWORDS : HoldsIgnoringCase(fin, kw))
        /\ (fin = <<>>) => (fout = FALSE)

\* a title holding a keyword in mixed case between other characters was
\* reported as a challenge
C14_Witness ==
    /\ fpc = "detected"
    /\ fout = TRUE
    /\ fin /= Lower(fin)
    /\ fin /= [i \in 1..Len(fin) |-> UpperChar(fin[i])]
    /\ Len(fin) > 7

\* a title one character short of a keyword was reported as no challenge
C14_NearMiss ==
    /\ fpc = "detected"
    /\ fout = FALSE
    /\ fin = <<"J","U","S","T","A">>

\* C15: _has_turnstile_response never raises; it returns true only when the
\* read of the hidden field succeeds with a non-empty value, and false when
\* the read raises (field absent, timeout, any other failure) or the value
\* is empty.
C15_TokenProbeIsTotal ==
    (fpc = "probed") =>
        /\ fout \in BOOLEAN
        /\ fout = (fin /= Raised /\ Len(fin) > 0)

\* a failed read was answered with false
C15_Witness == fpc = "probed" /\ fin = Raised /\ fout = FALSE

\* a read that gave a value was answered with true
C15_TokenSeen == fpc = "probed" /\ fin /= Raised /\ Len(fin) > 0 /\ fout = TRUE

\* C16: the in-browser fetch requests the primary URL first; it requests the
\* fallback URL exactly when there is one and the primary response had status
\* 403; it makes at most two requests; it fails when the last response is not
\* a success, and otherwise hands over the parsed body of that response.
C16_FetchOrder ==
    /\ (tpc \in {"idle", "goto", "evaluate"}) => (requests = <<>>)
    /\ (requests /= <<>>) =>
          LET n == Len(requests)
              last == responses.statuses[n]
          IN /\ n <= 2
             /\ Len(responses.statuses) = n
             /\ requests[1] = urls[1]
             /\ (n = 2) <=> (urls[2] /= NoUrl /\ responses.statuses[1] = 403)
             /\ (n = 2) => (requests[2] = urls[2])
             /\ (~RespOk(last)) =>
                   /\ result = EvaluateRaised
                   /\ toutcome = [kind |-> "returned", value |-> <<>>]
             /\ RespOk(last) => (result = responses.body)

\* the primary request was blocked and the fallback request gave the body
C16_Witness ==
    /\ tpc = "read"
    /\ Len(requests) = 2
    /\ responses.statuses = <<403, 200>>
    /\ requests[1] /= requests[2]
    /\ result.t = "object"

\* a failed primary request other than 403 was not retried although a
\* fallback URL existed
C16_NoRetryOn500 ==
    /\ urls[2] /= NoUrl
    /\ responses.statuses = <<500>>
    /\ requests = <<urls[1]>>

\* a query whose fallback is the empty text has no fallback URL, and its
\* blocked primary request was not retried
C16_EmptyFallback ==
    /\ sanitize_query(query)[2] = <<>>
    /\ urls[2] = NoUrl
    /\ responses.statuses = <<403>>

\* the current attempt has executed the statement named
Done(name) == StepCount(name) > 0

\* C17: in an STJ attempt the solver is called exactly when the detector,
\* asked right after the navigation, reported a challenge; when the solver
\* returns false the attempt ends there with a RuntimeError that the except
\* clause of research takes (kept as last_error, followed only by the reset,
\* the next attempt or the aggregated error), and no later statement of that
\* attempt is executed.
C17_SolverOnlyOnChallenge ==
    /\ Done("detect") => (steps[1] = "goto" /\ steps[2] = "detect")
    /\ Done("solve") => Done("challenge")
    /\ Done("clear") => ~Done("solve")
    /\ (Done("challenge") /\ ~Done("solve")) => (pc = "solve")
    /\ (pc = "solve") => (steps = <<"goto", "detect", "challenge">>)
    /\ Done("false") =>
          /\ steps = <<"goto", "detect", "challenge", "solve", "false">>
          /\ pc \in {"reset", "research", "done"}
          /\ last_error.kind = "RuntimeError"
          /\ \E i \in 1..Len(log) :
                /\ log[i] = [ev |-> "fail", n |-> last_error.attempt,
                              kind |-> "RuntimeError"]
                /\ \A j \in (i + 1)..Len(log) : log[j].ev = "reset"
          /\ (outcome.kind = "raised") => outcome.aggregated

\* the solver returned false in the first attempt and the reset is next
C17_Witness ==
    /\ Done("false")
    /\ pc = "reset"
    /\ attempt = 1
    /\ last_error = [kind |-> "RuntimeError", attempt |-> 1]

\* no challenge was reported, the solver was not called and a list came back
C17_NoChallenge ==
    /\ Done("clear")
    /\ ~Done("solve")
    /\ outcome.kind = "returned"

\* what an iteration must have found before it clicks
CLICK_PRECONDITIONS == {"challenge", "no_token", "frame", "box"}

\* C18: solve_cloudflare_challenge clicks in a loop iteration only if that
\* same iteration saw the challenge still active, the response token absent,
\* a frame of the challenge provider and its bounding box; an iteration that
\* finds no frame or no bounding box sleeps the poll interval and goes on to
\* the next iteration without having clicked; an iteration clicks at most
\* once, so a call clicks at most 20 times.
C18_ClickOnlyAfterChecks ==
    /\ [][(clicks' /= clicks) =>
            /\ clicks' = clicks + 1
            /\ CLICK_PRECONDITIONS \subseteq seen
            /\ "clicked" \notin seen
            /\ bounding_box /= NoBox]_vars
    /\ [][((spc \in {"find_frame", "bounding_box"}) /\ spc' = "loop") =>
            /\ "clicked" \notin seen
            /\ clicks' = clicks
            /\ now' >= now + ATTEMPT_INTERVAL_SECONDS
            /\ sAttempt' = sAttempt + 1]_vars
    /\ [](clicks <= MAX_SOLVE_ATTEMPTS /\ clicks <= sAttempt)

\* every iteration of a call has clicked
C18_Witness ==
    /\ clicks = MAX_SOLVE_ATTEMPTS
    /\ "clicked" \in seen
    /\ CLICK_PRECONDITIONS \subseteq seen

\* an iteration found no bounding box and the next one began, no click made
C18_NoBoxNoClick ==
    /\ spc = "check_title"
    /\ sAttempt = 2
    /\ bounding_box = NoBox
    /\ clicks = 0

RESOLUTION_CHECKS == {"check_title", "check_token", "recheck_title", "recheck_token"}

\* C19 (as claimed): True is returned only when the challenge is confirmed
\* resolved before the timeout: the check that observes the title changed or
\* the token present is made before the deadline.
C19_ObservedBeforeDeadline ==
    [][(observed' /\ ~observed) => (now < deadline)]_vars

\* C19 (amended): every True result follows a resolution check that observed
\* the title changed or the token present, in an iteration that began before
\* the deadline (the check itself may come after it), with no click after
\* that check; a run that ends otherwise returns False or ends with the
\* exception of a driver call.
C19_TrueOnlyAfterObservation ==
    /\ [](sResult = "true" => (observed /\ "in_time" \in seen))
    /\ [][(observed' /\ ~observed) =>
            (spc \in RESOLUTION_CHECKS /\ "in_time" \in seen)]_vars
    /\ [][observed => (observed' /\ clicks' = clicks)]_vars
    /\ []((spc = "returned") =>
            (sResult \in {"true", "false"} /\ (sResult = "true" <=> observed)))
    /\ []((spc = "raised") => (sResult = "raised" /\ ~observed))
    /\ []("late" \notin seen)

\* True was returned on a token observed after the deadline had passed
C19_Witness ==
    /\ sResult = "true"
    /\ observed
    /\ "clicked" \in seen
    /\ now - TOKEN_SETTLE_SECONDS > deadline

\* the events of call c of one kind
OwnEvents(c, ev) == SelectSeq(calls[c].own, LAMBDA e : e.ev = ev)
\* the failures of call c that its except clause took
OwnRetried(c) ==
    SelectSeq(calls[c].own, LAMBDA e : e.ev = "fail" /\ Retryable(e.kind))

\* C20: research calls running concurrently on sessions of their own,
\* interleaved at any suspension point, do not interfere: a step of one call
\* changes neither the locals, the session nor the outcome of another; each
\* call's attempt counter and last error follow from its own failures alone;
\* each call makes at most 2 attempts and at most 1 reset, on its own session
\* only.
C20_CallsDoNotInterfere ==
    /\ [][\A c \in Calls :
            (calls'[c] /= calls[c] \/ sessions'[c] /= sessions[c]) =>
                \A d \in Calls \ {c} :
                    calls'[d] = calls[d] /\ sessions'[d] = sessions[d]]_vars
    /\ [](\A c \in Calls :
            LET me == calls[c]
                retried == OwnRetried(c)
                resets == Len(OwnEvents(c, "reset"))
            IN /\ Len(OwnEvents(c, "attempt")) <= MAX_RETRIES
               /\ resets <= MAX_RETRIES - 1
               /\ sessions[c].resets = resets
               /\ sessions[c].by \subseteq {c}
               /\ me.attempt =
                     1 + resets + (IF Len(retried) = MAX_RETRIES THEN 1 ELSE 0)
               /\ me.last_error =
                     IF retried = <<>> THEN NoError
                     ELSE [kind |-> retried[Len(retried)].kind,
                           attempt |-> retried[Len(retried)].n]
               /\ (me.outcome.kind = "returned") =>
                     (me.outcome.value = [session |-> c, attempt |-> me.attempt])
               /\ (me.outcome.kind = "raised" /\ me.outcome.aggregated) =>
                     /\ Len(retried) = MAX_RETRIES
                     /\ me.outcome.cause = me.last_error
                     /\ me.last_error.attempt = MAX_RETRIES)

\* call 1 failed twice, with its reset in between, while call 2 returned the
\* list of its first attempt on a session nobody reset
C20_Witness ==
    /\ calls[1].outcome.kind = "raised"
    /\ calls[1].outcome.aggregated
    /\ sessions[1].resets = 1
    /\ calls[2].outcome = [kind |-> "returned",
                           value |-> [session |-> 2, attempt |-> 1]]
    /\ sessions[2] = [url |-> "stj", resets |-> 0, by |-> {}]

\* both calls are suspended in the middle of their work
C20_Interleaved ==
    /\ calls[1].pc = "reset"
    /\ calls[2].pc = "extract"
    /\ sessions[2].url = "stj"

====
